---- MODULE Spec2Model ----
(***************************************************************************)
(* Model of the Siigo MCP server: the authenticated API client             *)
(* (src/src/siigo-client.ts: token cache, authenticate, makeRequest) and   *)
(* the tool layer that wraps every client call (src/src/index.ts:          *)
(* jsonResult, errorResult, one try/catch handler per registered tool).    *)
(*                                                                         *)
(* Execution is a single-threaded event loop: every handler runs from one  *)
(* await to the next without interleaving, so one action is one such run.  *)
(* Time is the wall clock in milliseconds; it advances one second a tick.  *)
(***************************************************************************)
EXTENDS Integers, Sequences, FiniteSets, TLC

\* ---------------------------------------------------------------- bounds
MaxOps == 2
MaxTicks == 2
MaxLifetime == 1
\* the longest results list a list request is answered with
MaxResults == 2

Ops == 1..MaxOps
Lifetimes == 1..MaxLifetime

\* ------------------------------------------------------- program constants
\* expires_in is in seconds, Date.now() in milliseconds
MsPerSecond == 1000
\* the axios instance's timeout, in milliseconds
TimeoutMs == 120000

\* index.ts config: the credentials and the partner identifier the process
\* was started with (it exits at start when one of them is empty)
config ==
  [ username |-> "user@example.com", accessKey |-> "key", partnerId |-> "acmeMcp",
    baseUrl |-> "https://api.siigo.com" ]

\* an environment variable that is not set
Unset == "<unset>"

\* process.env.X || fallback
EnvOr(v, fallback) == IF v \in {Unset, ""} THEN fallback ELSE v

\* index.ts lines 34-39: the configuration read from the environment
ConfigOf(env) ==
  [ username |-> EnvOr(env.SIIGO_USERNAME, ""),
    accessKey |-> EnvOr(env.SIIGO_ACCESS_KEY, ""),
    baseUrl |-> EnvOr(env.SIIGO_BASE_URL, "https://api.siigo.com"),
    partnerId |-> EnvOr(env.SIIGO_PARTNER_ID, "") ]

\* mutant: the partner identifier is not asked for
MissingRequiredNoPartner(cfg) == cfg.username = "" \/ cfg.accessKey = ""

\* index.ts line 41: !config.username || !config.accessKey || !config.partnerId
MissingRequired(cfg) == cfg.username = "" \/ cfg.accessKey = "" \/ cfg.partnerId = ""

\* process.exit(1)
ExitFailure == 1

\* what console.error prints before the exit
Diagnostic ==
  "SIIGO_USERNAME, SIIGO_ACCESS_KEY, and SIIGO_PARTNER_ID environment variables are required"

\* the environments a start is explored from
Environments ==
  [ SIIGO_USERNAME : {Unset, "", "user@example.com"},
    SIIGO_ACCESS_KEY : {Unset, "", "key"},
    SIIGO_BASE_URL : {Unset, "", "https://sandbox.example"},
    SIIGO_PARTNER_ID : {Unset, "", "acmeMcp"} ]

\* the environment of the process whose invocations are followed
RunningEnv ==
  [ SIIGO_USERNAME |-> "user@example.com", SIIGO_ACCESS_KEY |-> "key",
    SIIGO_BASE_URL |-> Unset, SIIGO_PARTNER_ID |-> "acmeMcp" ]

\* ------------------------------------------------- JavaScript value domain
\* token: string | null, and undefined when the response carries no token
NullToken == "<null>"
UndefinedToken == "<undefined>"
\* tokenExpiry: Date | null; a Date built from NaN is an Invalid Date
NullDate == -1
InvalidDate == -2
\* expires_in missing from the response body: undefined
MissingLifetime == -1
\* no Authorization entry in the instance's default headers
NoHeader == "<none>"

\* truthiness of a string-or-null-or-undefined value
Truthy(v) == v \notin {NullToken, UndefinedToken, ""}

\* `${v}` for a string-or-null-or-undefined value
TemplateStr(v) ==
  IF v = UndefinedToken THEN "undefined"
  ELSE IF v = NullToken THEN "null"
  ELSE v

\* new Date() < d, for d a Date: false when d is an Invalid Date (NaN)
DateBefore(t, d) == d # InvalidDate /\ t < d

\* Error.prototype.toString(): "<name>: <message>"
ErrToString(e) == e.name \o ": " \o e.message

\* new Error(message)
NewError(msg) == [name |-> "Error", message |-> msg]

\* ------------------------------------------------------------- the tools
\* each registered tool: its registered name, the name its handler's catch
\* passes to errorResult, and the request its client method issues
ToolTable ==
  [ siigo_get_products |->
      [errName |-> "siigo_get_products", method |-> "GET", url |-> "/v1/products"],
    siigo_create_product |->
      [errName |-> "siigo_create_product", method |-> "POST", url |-> "/v1/products"] ]

Tools == DOMAIN ToolTable
\* every tool reaches the upstream through makeRequest alone: concurrent
\* invocations are explored on one tool, every tool on sequential ones
ConcurrentTools == {"siigo_get_products"}
NoTool == "<none>"

\* ------------------------------------------------------ upstream responses
ProductsPage ==
  [ results |-> << [code |-> "P1", name |-> "Widget"] >>,
    pagination |-> [page |-> 1, page_size |-> 25, total_results |-> 1] ]

ErrBody400 ==
  [ Status |-> 400,
    Errors |-> << [Code |-> "parameter_required", Message |-> "The code is required"] >> ]

ErrBody401 ==
  [ Status |-> 401,
    Errors |-> << [Code |-> "unauthorized", Message |-> "Invalid token"] >> ]

OkBodies == {ProductsPage}
ErrorBodies == {ErrBody400}

\* JSON.stringify(data, null, 2) of the bodies above
JSONStringify(d) ==
  CASE d = ProductsPage ->
         "{\n  \"results\": [\n    {\n      \"code\": \"P1\",\n      \"name\": \"Widget\"\n    }\n  ],\n  \"pagination\": {\n    \"page\": 1,\n    \"page_size\": 25,\n    \"total_results\": 1\n  }\n}"
    [] d = ErrBody400 ->
         "{\n  \"Status\": 400,\n  \"Errors\": [\n    {\n      \"Code\": \"parameter_required\",\n      \"Message\": \"The code is required\"\n    }\n  ]\n}"
    [] d = ErrBody401 ->
         "{\n  \"Status\": 401,\n  \"Errors\": [\n    {\n      \"Code\": \"unauthorized\",\n      \"Message\": \"Invalid token\"\n    }\n  ]\n}"

\* An AxiosError: response is <<>> when the call got no response at all
\* (timeout, DNS failure, connection reset), else <<[status, data]>> where
\* data is <<>> for an empty body and <<body>> otherwise.
AxiosError(msg, resp) == [name |-> "AxiosError", message |-> msg, response |-> resp]

TimeoutError == AxiosError("timeout of " \o ToString(TimeoutMs) \o "ms exceeded", <<>>)
NetworkErrors == {TimeoutError}

HttpError(status, data) ==
  AxiosError("Request failed with status code " \o ToString(status),
             << [status |-> status, data |-> data] >>)

\* what the upstream can answer to a resource call: a 2xx response with
\* its body (error is <<>>), or a rejection with its AxiosError
ResourceOutcomes ==
  {[data |-> <<d>>, error |-> <<>>] : d \in OkBodies}
  \cup {[data |-> <<>>, error |-> <<HttpError(d.Status, <<d>>)>>] : d \in ErrorBodies}
  \cup {[data |-> <<>>, error |-> <<HttpError(500, <<>>)>>]}
  \cup {[data |-> <<>>, error |-> <<e>>] : e \in NetworkErrors}

\* a rejection of the bearer credential by the upstream
Rejected401 == [data |-> <<>>, error |-> <<HttpError(401, <<ErrBody401>>)>>]

\* the answers explored when invocations run one at a time
ToolOutcomes == ResourceOutcomes \cup {Rejected401}

\* the token the upstream issues in answer to operation i's exchange
TokenOf(i) == "tok" \o ToString(i)

\* what the upstream can answer to POST /auth issued by operation i:
\* a 2xx body (possibly lacking access_token or expires_in), a 2xx null
\* body, or a rejection with its AxiosError
AuthOutcomes(i) ==
  {[kind |-> "body", access_token |-> t, expires_in |-> l, error |-> <<>>] :
      t \in {TokenOf(i), UndefinedToken}, l \in Lifetimes \cup {MissingLifetime}}
  \cup {[kind |-> "null", access_token |-> UndefinedToken, expires_in |-> MissingLifetime,
         error |-> <<>>]}
  \cup {[kind |-> "error", access_token |-> UndefinedToken, expires_in |-> MissingLifetime,
         error |-> <<e>>] : e \in NetworkErrors \cup {HttpError(401, <<ErrBody401>>)}}

\* ------------------------------------------------------------------ state
VARIABLES
  now,          \* the wall clock, ms
  alive,        \* the server process is running
  token,        \* SiigoClient.token
  tokenExpiry,  \* SiigoClient.tokenExpiry, ms
  authHeader,   \* httpClient.defaults.headers.common['Authorization']
  pc,           \* per invocation: "idle", "auth", "request", "done"
  tool,         \* per invocation: the tool invoked
  result,       \* per invocation: the results its handler returned
  inflight,     \* the outbound HTTP requests awaiting their response
  authCalls,    \* per invocation: POST /auth calls issued
  resCalls,     \* per invocation: resource calls issued
  authReply,    \* per invocation: <<>> or <<the kind of answer to its POST /auth>>
  resReply,     \* per invocation: <<>> or <<the answer to its resource call>>
  client,       \* per invocation: <<>> or <<how its client call ended>>
  lastExchange, \* the (token, expiry) of the latest 2xx exchange response
  raced,        \* an exchange was issued while another was in flight
  call,         \* <<>> or <<the tool call whose client method is followed>>
  requests,     \* the arguments of that method's calls of makeRequest
  response,     \* <<>> or <<what makeRequest returned to the method>>
  output,       \* <<>> or <<how the method ended>>
  boot          \* the process: its environment, its phase ("starting",
                \* "exited", "serving"), the client's configuration once
                \* created, its exit code and what it printed on stderr

\* the client and the invocations in progress
clientVars == << now, alive, token, tokenExpiry, authHeader, pc, tool, result, inflight,
                 authCalls, resCalls, authReply, resReply, client, lastExchange, raced >>
\* one client method followed from its call to its return
methodVars == << call, requests, response, output >>

vars == << clientVars, methodVars, boot >>

\* ------------------------------------------------------------ tool layer
\* mutant: the data is turned into text by String()
jsonResultToString(data) ==
  [ content |-> << [type |-> "text", text |-> "[object Object]"] >>,
    isError |-> FALSE ]

\* index.ts jsonResult; the result has no isError key, which reads FALSE
jsonResult(data) ==
  [ content |-> << [type |-> "text", text |-> JSONStringify(data)] >>,
    isError |-> FALSE ]

\* index.ts errorResult; every value thrown here is an Error
errorResult(toolName, error) ==
  [ content |-> << [type |-> "text",
                    text |-> "Error executing " \o toolName \o ": " \o error.message] >>,
    isError |-> TRUE ]

\* mutant: a handler copied from siigo_get_products keeps its name
HandlerCatchCopied(t, error) ==
  [ content |-> << [type |-> "text",
                    text |-> "Error executing siigo_get_products: " \o error.message] >>,
    isError |-> TRUE ]

\* the catch clause of the handler registered under name t
HandlerCatch(t, error) == errorResult(ToolTable[t].errName, error)

\* mutant: a handler without try/catch
EscapesUncaught(t, error) == TRUE

\* whether an error thrown by the client call leaves the handler: every
\* handler's catch (e) takes whatever is thrown
Escapes(t, error) == FALSE

\* how a client call ended: it returned data, or it threw error
Returned(data) == [returned |-> <<data>>, thrown |-> <<>>]
Threw(error) == [returned |-> <<>>, thrown |-> <<error>>]

\* mutant: returned data that carries a Status is flagged as an error
HandlerResultFlagsStatus(t, m) ==
  IF m.thrown # <<>> THEN HandlerCatch(t, m.thrown[1])
  ELSE [ content |-> jsonResult(m.returned[1]).content,
         isError |-> ("Status" \in DOMAIN m.returned[1]) ]

\* the handler's try/catch around the awaited client call
HandlerResult(t, m) ==
  IF m.thrown # <<>> THEN HandlerCatch(t, m.thrown[1]) ELSE jsonResult(m.returned[1])

\* --------------------------------------------------------------- client
\* mutant: the expiry instant itself still counts as valid (<= for <)
CredentialValidInclusive(tok, exp, t) ==
  Truthy(tok) /\ exp \notin {NullDate, InvalidDate} /\ t <= exp

\* mutant: the comparison is reversed
CredentialValidReversed(tok, exp, t) ==
  Truthy(tok) /\ exp \notin {NullDate, InvalidDate} /\ exp < t

\* authenticate, line 47: the cached credential is still good
CredentialValid(tok, exp, t) ==
  Truthy(tok) /\ exp # NullDate /\ DateBefore(t, exp)

\* mutant: the lifetime is taken for milliseconds
ExpiryOfMillis(t, lifetime) ==
  IF lifetime = MissingLifetime THEN InvalidDate ELSE t + lifetime

\* authenticate, line 58: new Date(Date.now() + expires_in * 1000)
ExpiryOf(t, lifetime) ==
  IF lifetime = MissingLifetime THEN InvalidDate ELSE t + lifetime * MsPerSecond

\* mutant: an expiry already recorded is kept (??= for =)
CacheWriteKeepsExpiry(old, body, t) ==
  [ token |-> body.access_token,
    tokenExpiry |-> IF old.tokenExpiry = NullDate
                      THEN IF body.expires_in = MissingLifetime THEN InvalidDate
                           ELSE t + body.expires_in * MsPerSecond
                      ELSE old.tokenExpiry,
    authHeader |-> "Bearer " \o TemplateStr(body.access_token) ]

\* mutant: the default header is set by the first exchange only
CacheWriteStaleHeader(old, body, t) ==
  [ token |-> body.access_token,
    tokenExpiry |-> IF body.expires_in = MissingLifetime THEN InvalidDate
                    ELSE t + body.expires_in * MsPerSecond,
    authHeader |-> IF old.authHeader = NoHeader
                     THEN "Bearer " \o TemplateStr(body.access_token)
                     ELSE old.authHeader ]

\* authenticate, lines 57-60: what a 2xx body received at t writes over
\* the cache old
CacheWrite(old, body, t) ==
  [ token |-> body.access_token,
    tokenExpiry |-> ExpiryOf(t, body.expires_in),
    authHeader |-> "Bearer " \o TemplateStr(body.access_token) ]

Cache == [token |-> token, tokenExpiry |-> tokenExpiry, authHeader |-> authHeader]

\* an outbound request as it leaves the axios instance: the instance's
\* default headers are merged into every request, POST /auth included.
\* bearerExpiry is the expiry recorded with the credential the header
\* carries (NullDate when the request carries none).
Request(i, kind, method, url, header, expiry) ==
  [ op |-> i, kind |-> kind, method |-> method, url |-> url,
    Authorization |-> header, PartnerId |-> boot.config[1].partnerId,
    bearerExpiry |-> expiry, at |-> now ]

\* authenticate, line 52: httpClient.post('/auth', ...)
AuthRequest(i) ==
  Request(i, "auth", "POST", "/auth", authHeader, lastExchange.expiry)

\* makeRequest, line 76: httpClient.request({method, url, ...})
ResourceRequest(i, t, header, expiry) ==
  Request(i, "resource", ToolTable[t].method, ToolTable[t].url, header, expiry)

InFlight(i, kind) == {q \in inflight : q.op = i /\ q.kind = kind}

\* mutant: the upstream error is rethrown without the prefix
AuthenticationFailedBare(error) == NewError(error.message)

\* authenticate's catch, line 62
AuthenticationFailed(error) == NewError("Authentication failed: " \o ErrToString(error))

\* mutant: only a 5xx body is returned
ReturnsErrorBodyOn5xx(error) ==
  error.name = "AxiosError" /\ Len(error.response) > 0
    /\ Len(error.response[1].data) > 0 /\ error.response[1].status >= 500

\* makeRequest's catch, line 86:
\* axios.isAxiosError(error) && error.response?.data
ReturnsErrorBody(error) ==
  error.name = "AxiosError" /\ Len(error.response) > 0
    /\ Len(error.response[1].data) > 0

\* mutant: String(error) for error.message
ApiRequestFailedString(error) ==
  [name |-> "Error", message |-> "API request failed: " \o error.name \o ": " \o error.message]

\* makeRequest's catch, line 89
ApiRequestFailed(error) == NewError("API request failed: " \o error.message)

\* mutant: a rejected credential is dropped from the cache
CacheDroppedOnRejection(old, r) ==
  IF r.error # <<>> /\ r.error[1].response # <<>> /\ r.error[1].response[1].status = 401
    THEN [token |-> NullToken, tokenExpiry |-> NullDate, authHeader |-> old.authHeader]
    ELSE old

\* the cache after makeRequest has handled outcome r of the resource
\* call: lines 75-90 assign neither token, tokenExpiry nor the header
CacheOnResponse(old, r) == old

\* mutant: a failed exchange resets the cache
CacheResetOnFailure(old, error) ==
  [token |-> NullToken, tokenExpiry |-> NullDate, authHeader |-> NoHeader]

\* the cache after authenticate's catch: the assignments of lines 57-60
\* come after the failing await, or after the failing read of a null body
CacheOnAuthFailure(old, error) == old

\* mutant: a call that got no response is issued again
ReissuesOnNoResponse(error) == error.response = <<>>

\* whether makeRequest issues the failed call again: its catch returns
\* the error body or throws, the call is not inside any loop
Reissues(error) == FALSE

\* ---------------------------------------------------------------- actions
\* nothing invoked yet, nothing cached
Idle ==
  /\ now = 0
  /\ alive = TRUE
  /\ token = NullToken
  /\ tokenExpiry = NullDate
  /\ authHeader = NoHeader
  /\ pc = [i \in Ops |-> "idle"]
  /\ tool = [i \in Ops |-> NoTool]
  /\ result = [i \in Ops |-> << >>]
  /\ inflight = {}
  /\ authCalls = [i \in Ops |-> 0]
  /\ resCalls = [i \in Ops |-> 0]
  /\ authReply = [i \in Ops |-> << >>]
  /\ resReply = [i \in Ops |-> << >>]
  /\ client = [i \in Ops |-> << >>]
  /\ lastExchange = [token |-> NullToken, expiry |-> NullDate]
  /\ raced = FALSE
  /\ call = << >>
  /\ requests = << >>
  /\ response = << >>
  /\ output = << >>

\* the process as it is started in environment env
Starting(env) ==
  [ phase |-> "starting", env |-> env, config |-> << >>, exitCode |-> << >>,
    stderr |-> << >> ]

\* index.ts lines 41-46: exit with the diagnostic, or create the client
Started(b) ==
  IF MissingRequired(ConfigOf(b.env))
    THEN [b EXCEPT !.phase = "exited", !.exitCode = << ExitFailure >>,
                   !.stderr = Append(@, Diagnostic)]
    ELSE [b EXCEPT !.phase = "serving", !.config = << ConfigOf(b.env) >>]

\* the server is up with its client created
Init == Idle /\ boot = Started(Starting(RunningEnv))

\* the process is launched in some environment
StartInit == Idle /\ boot \in {Starting(env) : env \in Environments}

\* the module's top-level code runs: configuration, check, client, server
Startup ==
  /\ boot.phase = "starting"
  /\ boot' = Started(boot)
  /\ alive' = (boot'.phase # "exited")
  /\ UNCHANGED << now, token, tokenExpiry, authHeader, pc, tool, result, inflight,
                  authCalls, resCalls, authReply, resReply, client, lastExchange, raced,
                  methodVars >>

\* The host invokes tool t as invocation i: the handler calls the client
\* method, which calls makeRequest, which calls authenticate. With a good
\* cached credential the resource call is issued at once; otherwise POST
\* /auth is issued and the invocation waits for its response.
Invoke(i, t) ==
  /\ alive
  /\ boot.phase = "serving"
  /\ pc[i] = "idle"
  /\ \A j \in Ops : j < i => pc[j] # "idle"
  /\ tool' = [tool EXCEPT ![i] = t]
  /\ IF CredentialValid(token, tokenExpiry, now)
       THEN /\ pc' = [pc EXCEPT ![i] = "request"]
            /\ inflight' = inflight \cup {ResourceRequest(i, t, authHeader, lastExchange.expiry)}
            /\ resCalls' = [resCalls EXCEPT ![i] = @ + 1]
            /\ UNCHANGED << authCalls, raced >>
       ELSE /\ pc' = [pc EXCEPT ![i] = "auth"]
            /\ inflight' = inflight \cup {AuthRequest(i)}
            /\ authCalls' = [authCalls EXCEPT ![i] = @ + 1]
            /\ raced' = (raced \/ \E q \in inflight : q.kind = "auth")
            /\ UNCHANGED resCalls
  /\ UNCHANGED << now, alive, token, tokenExpiry, authHeader, result, authReply,
                  resReply, client, lastExchange, methodVars, boot >>

\* what the invocation remembers of the answer r to its POST /auth: its
\* kind, whether it carried both a token and a lifetime, and the lifetime
ReplySummary(r) ==
  [ kind |-> r.kind,
    complete |-> (r.kind = "body" /\ r.access_token # UndefinedToken
                    /\ r.expires_in # MissingLifetime),
    lifetime |-> r.expires_in ]

\* POST /auth answers 2xx with a body: the cache and the default header
\* are written, authenticate returns and makeRequest issues the resource
\* call.
AuthSucceeds(i, r) ==
  /\ alive
  /\ pc[i] = "auth"
  /\ r.kind = "body"
  /\ token' = CacheWrite(Cache, r, now).token
  /\ tokenExpiry' = CacheWrite(Cache, r, now).tokenExpiry
  /\ authHeader' = CacheWrite(Cache, r, now).authHeader
  /\ lastExchange' = [token |-> r.access_token,
                      expiry |-> IF r.expires_in = MissingLifetime THEN InvalidDate
                                 ELSE now + r.expires_in * MsPerSecond]
  /\ authReply' = [authReply EXCEPT ![i] = <<ReplySummary(r)>>]
  /\ pc' = [pc EXCEPT ![i] = "request"]
  /\ inflight' = (inflight \ InFlight(i, "auth"))
                   \cup {ResourceRequest(i, tool[i], authHeader', lastExchange'.expiry)}
  /\ resCalls' = [resCalls EXCEPT ![i] = @ + 1]
  /\ UNCHANGED << now, alive, tool, result, authCalls, resReply, client, raced,
                  methodVars, boot >>

\* what authenticate's try block throws for outcome r
AuthThrown(r) ==
  IF r.kind = "null"
    THEN [name |-> "TypeError",
          message |-> "Cannot read properties of null (reading 'access_token')"]
    ELSE r.error[1]

\* The client call of invocation i ends as m: the handler returns the
\* invocation's result, unless the error leaves the handler.
Finish(i, m) ==
  /\ client' = [client EXCEPT ![i] = <<m>>]
  /\ pc' = [pc EXCEPT ![i] = "done"]
  /\ IF m.thrown # <<>> /\ Escapes(tool[i], m.thrown[1])
       THEN alive' = FALSE /\ UNCHANGED result
       ELSE /\ result' = [result EXCEPT ![i] = Append(@, HandlerResult(tool[i], m))]
            /\ UNCHANGED alive

\* POST /auth fails, or answers 2xx with a null body: authenticate throws,
\* makeRequest and the client method let it through to the handler.
AuthFails(i, r) ==
  /\ alive
  /\ pc[i] = "auth"
  /\ r.kind \in {"null", "error"}
  /\ authReply' = [authReply EXCEPT ![i] = <<ReplySummary(r)>>]
  /\ inflight' = inflight \ InFlight(i, "auth")
  /\ token' = CacheOnAuthFailure(Cache, AuthThrown(r)).token
  /\ tokenExpiry' = CacheOnAuthFailure(Cache, AuthThrown(r)).tokenExpiry
  /\ authHeader' = CacheOnAuthFailure(Cache, AuthThrown(r)).authHeader
  /\ Finish(i, Threw(AuthenticationFailed(AuthThrown(r))))
  /\ UNCHANGED << now, tool, authCalls, resCalls, resReply, lastExchange, raced,
                  methodVars, boot >>

\* makeRequest, lines 75-90: what it hands its caller for outcome r
MakeRequestResult(r) ==
  IF r.error = <<>> THEN Returned(r.data[1])
  ELSE IF ReturnsErrorBody(r.error[1])
    THEN Returned(r.error[1].response[1].data[1])
    ELSE Threw(ApiRequestFailed(r.error[1]))

\* The resource call completes: 2xx, non-2xx, or no response at all.
Response(i, r) ==
  /\ alive
  /\ pc[i] = "request"
  /\ resReply' = [resReply EXCEPT ![i] = <<r>>]
  /\ IF r.error # <<>> /\ Reissues(r.error[1])
       THEN /\ inflight' = (inflight \ InFlight(i, "resource"))
                             \cup {ResourceRequest(i, tool[i], authHeader, lastExchange.expiry)}
            /\ resCalls' = [resCalls EXCEPT ![i] = @ + 1]
            /\ UNCHANGED << pc, client, result, alive >>
       ELSE /\ inflight' = inflight \ InFlight(i, "resource")
            /\ Finish(i, MakeRequestResult(r))
            /\ UNCHANGED resCalls
  /\ token' = CacheOnResponse(Cache, r).token
  /\ tokenExpiry' = CacheOnResponse(Cache, r).tokenExpiry
  /\ authHeader' = CacheOnResponse(Cache, r).authHeader
  /\ UNCHANGED << now, tool, authCalls, authReply, lastExchange, raced, methodVars,
                  boot >>

\* one second passes
Tick ==
  /\ now < MaxTicks * MsPerSecond
  /\ now' = now + MsPerSecond
  /\ UNCHANGED << alive, token, tokenExpiry, authHeader, pc, tool, result, inflight,
                  authCalls, resCalls, authReply, resReply, client, lastExchange, raced,
                  methodVars, boot >>

\* the host invokes a tool while no other invocation is pending
InvokeAlone(i, t) ==
  /\ \A j \in Ops : pc[j] \in {"idle", "done"}
  /\ Invoke(i, t)

\* invocations of one tool, overlapping freely
Next ==
  \/ \E i \in Ops, t \in ConcurrentTools : Invoke(i, t)
  \/ \E i \in Ops : \E r \in AuthOutcomes(i) : AuthSucceeds(i, r)
  \/ \E i \in Ops : \E r \in AuthOutcomes(i) : AuthFails(i, r)
  \/ \E i \in Ops : \E r \in ResourceOutcomes : Response(i, r)
  \/ Tick

Spec == Init /\ [][Next]_vars

\* invocations of every tool, one at a time
ToolNext ==
  \/ \E i \in Ops, t \in Tools : InvokeAlone(i, t)
  \/ \E i \in Ops : \E r \in AuthOutcomes(i) : AuthSucceeds(i, r)
  \/ \E i \in Ops : \E r \in AuthOutcomes(i) : AuthFails(i, r)
  \/ \E i \in Ops : \E r \in ToolOutcomes : Response(i, r)
  \/ Tick

ToolSpec == Init /\ [][ToolNext]_vars

\* a launch in any environment, then invocations one at a time
StartNext ==
  \/ Startup
  \/ \E i \in Ops, t \in ConcurrentTools : InvokeAlone(i, t)
  \/ \E i \in Ops : \E r \in AuthOutcomes(i) : AuthSucceeds(i, r)
  \/ \E i \in Ops : \E r \in AuthOutcomes(i) : AuthFails(i, r)
  \/ \E i \in Ops : \E r \in ResourceOutcomes : Response(i, r)
  \/ Tick

StartSpec == StartInit /\ [][StartNext]_vars

\* Every HTTP call eventually returns, fails or hits the axios timeout.
FairSpec ==
  /\ Spec
  /\ \A i \in Ops :
       /\ WF_vars(\E r \in AuthOutcomes(i) : AuthSucceeds(i, r) \/ AuthFails(i, r))
       /\ WF_vars(\E r \in ResourceOutcomes : Response(i, r))

\* -------------------------------------------------------- client methods
\* One client method is followed in isolation: the arguments it hands to
\* makeRequest, and what it makes of the value makeRequest returns.
\* An optional value is <<>> when undefined and <<v>> otherwise. A string
\* that is lower-cased or searched is the sequence of its characters.
undefined == << >>
Some(v) == << v >>

\* mutant: a filter is active as soon as it is supplied
StrSupplied(o) == o # undefined

\* truthiness of an optional string / an optional number
StrTruthy(o) == o # undefined /\ o[1] # << >>
NumTruthy(o) == o # undefined /\ o[1] # 0

\* String.prototype.toLowerCase, on the letters used here
LowerOf == [c \in {"a", "b", "A", "B", "9"} |->
              IF c = "A" THEN "a" ELSE IF c = "B" THEN "b" ELSE c]
toLowerCase(s) == [k \in 1..Len(s) |-> LowerOf[s[k]]]

\* String.prototype.includes
includes(s, sub) ==
  \E k \in 0..(Len(s) - Len(sub)) : SubSeq(s, k + 1, k + Len(sub)) = sub

\* the arguments of one call of makeRequest(method, endpoint, data, params)
makeRequestArgs(method, endpoint, data, params) ==
  [method |-> method, url |-> endpoint, data |-> data, params |-> params]

\* the params object of a search: a key is set when its value is truthy
searchQuery(searchParams, keys) ==
  LET set == {k \in keys : IF k = "type" THEN searchParams[k] # undefined
                                           ELSE NumTruthy(searchParams[k])}
  IN [k \in set |-> searchParams[k][1]]

\* searchProducts, lines 122-127
searchProductsRequest(searchParams) ==
  makeRequestArgs("GET", "/v1/products", undefined,
                  Some(searchQuery(searchParams, {"page", "page_size"})))

\* searchCustomers, lines 208-214
searchCustomersRequest(searchParams) ==
  makeRequestArgs("GET", "/v1/customers", undefined,
                  Some(searchQuery(searchParams, {"page", "page_size", "type"})))

\* mutant: the element's field is compared as it is spelled
fieldMatchesCaseSensitive(item, field, search) ==
  item[field] # undefined /\ includes(item[field][1], search)

\* item.field?.toLowerCase().includes(search), search already lower-cased
fieldMatches(item, field, search) ==
  item[field] # undefined /\ includes(toLowerCase(item[field][1]), search)

\* searchCustomers, lines 232-242: the name filter's predicate
customerNameMatches(customer, searchName) ==
  IF customer.name # undefined
    THEN \E k \in 1..Len(customer.name[1]) :
           includes(toLowerCase(customer.name[1][k]), searchName)
    ELSE IF StrTruthy(customer.commercial_name)
      THEN includes(toLowerCase(customer.commercial_name[1]), searchName)
      ELSE FALSE

\* the predicate of the filter on field of a search of fn
matches(fn, field, item, search) ==
  IF fn = "searchCustomers" /\ field = "name"
    THEN customerNameMatches(item, search)
    ELSE fieldMatches(item, field, search)

\* the text filters of each search, in the order the method applies them
productFilters == << "code", "name", "reference" >>
customerFilters == << "identification", "name" >>

\* mutant: only the first filter of the list is applied
filterInFirstOnly(fn, searchParams, results, order) ==
  IF order = << >> \/ ~StrTruthy(searchParams[Head(order)]) THEN results
  ELSE SelectSeq(results,
         LAMBDA x : matches(fn, Head(order), x, toLowerCase(searchParams[Head(order)][1])))

\* the successive filteredResults = filteredResults.filter(...) of a
\* search, one for each active filter of order
RECURSIVE filterIn(_, _, _, _)
filterIn(fn, searchParams, results, order) ==
  IF order = << >> THEN results
  ELSE LET field == Head(order)
           kept == IF StrTruthy(searchParams[field])
                     THEN SelectSeq(results,
                            LAMBDA x : matches(fn, field, x,
                                               toLowerCase(searchParams[field][1])))
                     ELSE results
       IN filterIn(fn, searchParams, kept, Tail(order))

\* mutant: the server's total is kept
narrowedKeepsTotal(envelope, filteredResults) ==
  [envelope EXCEPT !.results = Some(filteredResults)]

\* lines 157-163 and 245-251: the envelope rebuilt around filteredResults
narrowed(envelope, filteredResults) ==
  [envelope EXCEPT
     !.results = Some(filteredResults),
     !.pagination = IF envelope.pagination # undefined
                      THEN Some([envelope.pagination[1] EXCEPT
                                   !.total_results = Len(filteredResults)])
                      ELSE undefined]

\* mutant: the envelope is rebuilt whether or not a filter is active
searchProductsAlwaysRebuilds(searchParams, envelope) ==
  IF envelope.results # undefined
    THEN narrowed(envelope, filterIn("searchProducts", searchParams,
                                     envelope.results[1], productFilters))
    ELSE envelope

\* searchProducts, lines 129-166: what it returns for the envelope
searchProducts(searchParams, envelope) ==
  IF ~StrTruthy(searchParams.code) /\ ~StrTruthy(searchParams.name)
       /\ ~StrTruthy(searchParams.reference)
    THEN envelope
    ELSE IF envelope.results # undefined
      THEN narrowed(envelope, filterIn("searchProducts", searchParams,
                                       envelope.results[1], productFilters))
      ELSE envelope

\* mutant: without a results list the filters are applied to an empty one
searchCustomersEmptyList(searchParams, envelope) ==
  IF ~StrTruthy(searchParams.identification) /\ ~StrTruthy(searchParams.name)
    THEN envelope
    ELSE narrowed(envelope, << >>)

\* searchCustomers, lines 216-254: what it returns for the envelope
searchCustomers(searchParams, envelope) ==
  IF ~StrTruthy(searchParams.identification) /\ ~StrTruthy(searchParams.name)
    THEN envelope
    ELSE IF envelope.results # undefined
      THEN narrowed(envelope, filterIn("searchCustomers", searchParams,
                                       envelope.results[1], customerFilters))
      ELSE envelope

\* the update methods: one makeRequest('PUT', ...) each
updateProduct(id, product) ==
  makeRequestArgs("PUT", "/v1/products/" \o id, Some(product), undefined)
updateAccountGroup(id, data) ==
  makeRequestArgs("PUT", "/v1/account-groups/" \o ToString(id), Some(data), undefined)
updateCustomer(id, customer) ==
  makeRequestArgs("PUT", "/v1/customers/" \o id, Some(customer), undefined)
updateInvoice(id, invoice) ==
  makeRequestArgs("PUT", "/v1/invoices/" \o id, Some(invoice), undefined)
updateQuotation(id, quotation) ==
  makeRequestArgs("PUT", "/v1/quotations/" \o id, Some(quotation), undefined)
updatePurchase(id, purchase) ==
  makeRequestArgs("PUT", "/v1/purchases/" \o id, Some(purchase), undefined)
updatePaymentReceipt(id, paymentReceipt) ==
  makeRequestArgs("PUT", "/v1/payment-receipts/" \o id, Some(paymentReceipt), undefined)
updateWebhook(webhook) ==
  makeRequestArgs("PUT", "/v1/webhooks", Some(webhook), undefined)

\* the create methods: one makeRequest('POST', ...) each
createProduct(product) ==
  makeRequestArgs("POST", "/v1/products", Some(product), undefined)
createAccountGroup(data) ==
  makeRequestArgs("POST", "/v1/account-groups", Some(data), undefined)
createCustomer(customer) ==
  makeRequestArgs("POST", "/v1/customers", Some(customer), undefined)
createInvoice(invoice) ==
  makeRequestArgs("POST", "/v1/invoices", Some(invoice), undefined)
createQuotation(quotation) ==
  makeRequestArgs("POST", "/v1/quotations", Some(quotation), undefined)
createCreditNote(creditNote) ==
  makeRequestArgs("POST", "/v1/credit-notes", Some(creditNote), undefined)
createVoucher(voucher) ==
  makeRequestArgs("POST", "/v1/vouchers", Some(voucher), undefined)
createPurchase(purchase) ==
  makeRequestArgs("POST", "/v1/purchases", Some(purchase), undefined)
createPaymentReceipt(paymentReceipt) ==
  makeRequestArgs("POST", "/v1/payment-receipts", Some(paymentReceipt), undefined)
createJournal(journal) ==
  makeRequestArgs("POST", "/v1/journals", Some(journal), undefined)
createWebhook(webhook) ==
  makeRequestArgs("POST", "/v1/webhooks", Some(webhook), undefined)

\* mutant: the report is asked for with a GET and query parameters
getTrialBalanceAsGet(params) ==
  makeRequestArgs("GET", "/v1/test-balance-report", undefined, Some(params))

\* the report methods, lines 491-497
getTrialBalance(params) ==
  makeRequestArgs("POST", "/v1/test-balance-report", Some(params), undefined)
getTrialBalanceByThird(params) ==
  makeRequestArgs("POST", "/v1/test-balance-report-by-thirdparty", Some(params), undefined)

\* the search tools and the update tools, with the client method each
\* handler calls on its arguments
SearchTools == {"siigo_search_products", "siigo_search_customers"}
UpdateTools ==
  { "siigo_update_product", "siigo_update_account_group", "siigo_update_customer",
    "siigo_update_invoice", "siigo_update_quotation", "siigo_update_purchase",
    "siigo_update_payment_receipt", "siigo_update_webhook" }

CreateTools ==
  { "siigo_create_product", "siigo_create_account_group", "siigo_create_customer",
    "siigo_create_invoice", "siigo_create_quotation", "siigo_create_credit_note",
    "siigo_create_voucher", "siigo_create_purchase", "siigo_create_payment_receipt",
    "siigo_create_journal", "siigo_create_webhook" }
ReportTools == { "siigo_get_trial_balance", "siigo_get_trial_balance_by_third" }

\* mutant: the product payload is completed with defaults before it is sent
createProductHandlerDefaults(args) ==
  createProduct([code |-> args.product.code, name |-> args.product.name,
                 account_group |-> args.product.account_group, active |-> TRUE])

\* the handler of siigo_create_product, index.ts lines 146-151
createProductHandler(args) == createProduct(args.product)

HandlerRequest(t, args) ==
  CASE t = "siigo_search_products" -> searchProductsRequest(args)
    [] t = "siigo_create_product" -> createProductHandler(args)
    [] t = "siigo_create_account_group" -> createAccountGroup(args)
    [] t = "siigo_create_customer" -> createCustomer(args.customer)
    [] t = "siigo_create_invoice" -> createInvoice(args.invoice)
    [] t = "siigo_create_quotation" -> createQuotation(args.quotation)
    [] t = "siigo_create_credit_note" -> createCreditNote(args.creditNote)
    [] t = "siigo_create_voucher" -> createVoucher(args.voucher)
    [] t = "siigo_create_purchase" -> createPurchase(args.purchase)
    [] t = "siigo_create_payment_receipt" -> createPaymentReceipt(args.paymentReceipt)
    [] t = "siigo_create_journal" -> createJournal(args.journal)
    [] t = "siigo_create_webhook" -> createWebhook(args)
    [] t = "siigo_get_trial_balance" -> getTrialBalance(args)
    [] t = "siigo_get_trial_balance_by_third" -> getTrialBalanceByThird(args)
    [] t = "siigo_search_customers" -> searchCustomersRequest(args)
    [] t = "siigo_update_product" -> updateProduct(args.id, args.product)
    [] t = "siigo_update_account_group" ->
         updateAccountGroup(args.id, [code |-> args.code, name |-> args.name])
    [] t = "siigo_update_customer" -> updateCustomer(args.id, args.customer)
    [] t = "siigo_update_invoice" -> updateInvoice(args.id, args.invoice)
    [] t = "siigo_update_quotation" -> updateQuotation(args.id, args.quotation)
    [] t = "siigo_update_purchase" -> updatePurchase(args.id, args.purchase)
    [] t = "siigo_update_payment_receipt" ->
         updatePaymentReceipt(args.id, args.paymentReceipt)
    [] t = "siigo_update_webhook" -> updateWebhook(args)

\* what the method returns once makeRequest has returned envelope
MethodReturn(t, args, envelope) ==
  CASE t = "siigo_search_products" -> searchProducts(args, envelope)
    [] t = "siigo_search_customers" -> searchCustomers(args, envelope)
    [] OTHER -> envelope

\* ---- the inputs
Str(s) == Some(s)
FilterValues == { undefined, Str(<< >>), Str(<<"a">>), Str(<<"A", "b">>), Str(<<"B">>) }
PageValues == { undefined, Some(0), Some(2) }
PageSizeValues == { undefined, Some(25) }
TypeValues == { undefined, Some("Customer") }

ProductSearches ==
  [ code : FilterValues, name : FilterValues, reference : {undefined, Str(<<"b">>)},
    page : PageValues, page_size : PageSizeValues ]
CustomerSearches ==
  [ identification : {undefined, Str(<<"9">>)}, name : FilterValues, type : TypeValues,
    page : PageValues, page_size : PageSizeValues ]

SampleProducts ==
  { [code |-> Str(<<"A", "B">>), name |-> Str(<<"b", "a">>), reference |-> undefined],
    [code |-> Str(<<"b">>), name |-> Str(<<"A", "b">>), reference |-> Str(<<"a", "b">>)],
    [code |-> undefined, name |-> Str(<<"a">>), reference |-> Str(<<"B">>)] }

SampleCustomers ==
  { [identification |-> Str(<<"9", "9">>), name |-> Some(<< <<"A", "b">>, <<"b">> >>),
     commercial_name |-> undefined],
    [identification |-> Str(<<"9">>), name |-> Some(<< <<"b">> >>),
     commercial_name |-> Str(<<"A", "B">>)],
    [identification |-> Str(<<"b">>), name |-> undefined,
     commercial_name |-> Str(<<"b", "a">>)],
    [identification |-> undefined, name |-> undefined, commercial_name |-> undefined] }

\* the lists of at most MaxResults elements of S
ListsOf(S) == UNION { [1..n -> S] : n \in 0..MaxResults }

\* the server's total, whatever the length of the page it sends
ServerTotal == 57

Links == [self |-> [href |-> "https://api.siigo.com/v1/list?page=2"]]

\* what makeRequest can return to a search: a page with or without its
\* pagination, or the body of a rejection (no results list)
Envelopes(items) ==
  { [ results |-> Some(l), pagination |-> p, links |-> Some(Links), Status |-> undefined ] :
      l \in ListsOf(items),
      p \in { undefined, Some([page |-> 2, page_size |-> 25, total_results |-> ServerTotal]) } }
  \cup { [ results |-> undefined, pagination |-> undefined, links |-> undefined,
           Status |-> Some(400) ] }

Ids == {"7", "8"}
Payloads == { [name |-> "n"], [name |-> "n", active |-> FALSE] }

UpdateArgs(t) ==
  CASE t = "siigo_update_product" -> [id : Ids, product : Payloads]
    [] t = "siigo_update_account_group" -> [id : {7, 8}, code : {"c"}, name : {"n", "m"}]
    [] t = "siigo_update_customer" -> [id : Ids, customer : Payloads]
    [] t = "siigo_update_invoice" -> [id : Ids, invoice : Payloads]
    [] t = "siigo_update_quotation" -> [id : Ids, quotation : Payloads]
    [] t = "siigo_update_purchase" -> [id : Ids, purchase : Payloads]
    [] t = "siigo_update_payment_receipt" -> [id : Ids, paymentReceipt : Payloads]
    [] t = "siigo_update_webhook" -> [id : Ids, url : {"https://h.example"}, active : BOOLEAN]

CreatePayloads ==
  { [code |-> "P1", name |-> "Widget", account_group |-> 10],
    [code |-> "P2", name |-> "Gadget", account_group |-> 10, active |-> FALSE] }

CreateArgs(t) ==
  CASE t = "siigo_create_product" -> [product : CreatePayloads]
    [] t = "siigo_create_account_group" -> [code : {"c"}, name : {"n", "m"}]
    [] t = "siigo_create_customer" -> [customer : CreatePayloads]
    [] t = "siigo_create_invoice" -> [invoice : CreatePayloads]
    [] t = "siigo_create_quotation" -> [quotation : CreatePayloads]
    [] t = "siigo_create_credit_note" -> [creditNote : CreatePayloads]
    [] t = "siigo_create_voucher" -> [voucher : CreatePayloads]
    [] t = "siigo_create_purchase" -> [purchase : CreatePayloads]
    [] t = "siigo_create_payment_receipt" -> [paymentReceipt : CreatePayloads]
    [] t = "siigo_create_journal" -> [journal : CreatePayloads]
    [] t = "siigo_create_webhook" -> [url : {"https://h.example"}, active : BOOLEAN]

ReportArgs(t) ==
  [ year : {2024}, month_start : {1}, month_end : {12, 13},
    includes_tax_difference : BOOLEAN ]

SearchArgs(t) ==
  IF t = "siigo_search_products" THEN ProductSearches ELSE CustomerSearches

MethodEnvelopes(t) ==
  CASE t = "siigo_search_products" -> Envelopes(SampleProducts)
    [] t = "siigo_search_customers" -> Envelopes(SampleCustomers)
    [] OTHER -> { [ results |-> undefined, pagination |-> undefined, links |-> undefined,
                    Status |-> undefined ],
                  [ results |-> undefined, pagination |-> undefined, links |-> undefined,
                    Status |-> Some(400) ] }

MethodTools == SearchTools \cup UpdateTools \cup CreateTools \cup ReportTools

\* ---- the actions
\* the tool whose method is being followed
CalledTool == IF call = << >> THEN NoTool ELSE call[1].tool

\* the handler of tool t is called with args: its client method runs up
\* to its await of makeRequest
MethodCall(t, args) ==
  /\ call = << >>
  /\ call' = << [tool |-> t, args |-> args] >>
  /\ requests' = Append(requests, HandlerRequest(t, args))
  /\ UNCHANGED << response, output, clientVars, boot >>

SearchCall(t, args) == t \in SearchTools /\ MethodCall(t, args)
UpdateCall(t, args) == t \in UpdateTools /\ MethodCall(t, args)
CreateCall(t, args) == t \in CreateTools /\ MethodCall(t, args)
ReportCall(t, args) == t \in ReportTools /\ MethodCall(t, args)

\* makeRequest returns envelope and the method runs to its return
MethodReturns(t, envelope) ==
  /\ CalledTool = t /\ output = << >>
  /\ response' = << envelope >>
  /\ output' = << Returned(MethodReturn(t, call[1].args, envelope)) >>
  /\ UNCHANGED << call, requests, clientVars, boot >>

\* makeRequest throws: no method catches, the error goes to the handler
MethodThrows(error) ==
  /\ call # << >> /\ output = << >>
  /\ output' = << Threw(error) >>
  /\ UNCHANGED << call, requests, response, clientVars, boot >>

MethodNext ==
  \/ \E t \in SearchTools : \E args \in SearchArgs(t) : SearchCall(t, args)
  \/ \E t \in UpdateTools : \E args \in UpdateArgs(t) : UpdateCall(t, args)
  \/ \E t \in CreateTools : \E args \in CreateArgs(t) : CreateCall(t, args)
  \/ \E t \in ReportTools : \E args \in ReportArgs(t) : ReportCall(t, args)
  \/ \E t \in MethodTools : \E envelope \in MethodEnvelopes(t) : MethodReturns(t, envelope)
  \/ \E e \in NetworkErrors : MethodThrows(ApiRequestFailed(e))

MethodSpec == Init /\ [][MethodNext]_vars

\* ------------------------------------------------------------ the claims
\* invocation i starts in this step
Starts(i) == pc[i] = "idle" /\ pc'[i] # "idle"

\* a credential is cached and the clock is strictly before its expiry
UsableCredential ==
  /\ token \notin {NullToken, UndefinedToken}
  /\ tokenExpiry \notin {NullDate, InvalidDate}
  /\ now < tokenExpiry

\* the exchange of invocation i returned a 2xx body / failed
ExchangeOk(i) == authReply[i] # <<>> /\ authReply[i][1].kind = "body"
ExchangeComplete(i) == ExchangeOk(i) /\ authReply[i][1].complete
ExchangeFailed(i) == authReply[i] # <<>> /\ authReply[i][1].kind \in {"null", "error"}

\* the single error-flagged text block for tool name n and message msg
ErrorBlock(n, msg) ==
  [ content |-> << [type |-> "text", text |-> "Error executing " \o n \o ": " \o msg] >>,
    isError |-> TRUE ]

\* C1: an operation that starts with no credential cached, or with the
\* cached expiry not after the current instant, issues exactly one POST
\* /auth, and that call has completed before its resource call is issued.
C1_ExchangePrecedesResource ==
  /\ [][\A i \in Ops : (Starts(i) /\ ~UsableCredential) =>
          /\ authCalls'[i] = 1
          /\ resCalls'[i] = 0
          /\ \E q \in inflight' : q.op = i /\ q.kind = "auth"]_vars
  /\ [](\A i \in Ops :
          /\ authCalls[i] <= 1
          /\ (authCalls[i] = 1 /\ resCalls[i] > 0) =>
               (ExchangeOk(i) /\ InFlight(i, "auth") = {}))

\* an operation that found its predecessor's credential expired has
\* exchanged again and issued its resource call
C1_Witness ==
  /\ ~raced
  /\ ExchangeComplete(1)
  /\ authCalls[2] = 1 /\ ExchangeOk(2) /\ resCalls[2] = 1

\* C2: an operation that starts with a credential cached and the clock
\* strictly before its expiry issues no POST /auth, then or later, and
\* issues its resource call at once.
C2_NoExchangeWhenValid ==
  /\ [][\A i \in Ops : (Starts(i) /\ UsableCredential) =>
          /\ authCalls'[i] = 0
          /\ resCalls'[i] = 1
          /\ \E q \in inflight' : q.op = i /\ q.kind = "resource"]_vars
  /\ [][\A i \in Ops : pc[i] # "idle" => authCalls'[i] = authCalls[i]]_vars

C2_Witness ==
  \E i \in Ops : pc[i] = "done" /\ authCalls[i] = 0 /\ resCalls[i] = 1

\* C3: no outbound request, resource call or credential exchange, carries
\* a bearer credential at or after that credential's recorded expiry.
C3_NoExpiredBearer ==
  \A q \in inflight :
    (q.Authorization \notin {NoHeader, "Bearer undefined"}
       /\ q.bearerExpiry \notin {NullDate, InvalidDate})
      => q.at < q.bearerExpiry

\* the messages a failed exchange can produce
AuthFailureMessages ==
  {"Authentication failed: AxiosError: " \o e.message :
      e \in NetworkErrors \cup {HttpError(401, <<ErrBody401>>)}}
  \cup {"Authentication failed: TypeError: Cannot read properties of null (reading 'access_token')"}

\* C4: when the exchange fails, the operation ends with an authentication
\* error, having issued one POST /auth and no resource call; an operation
\* that starts after a failure, the cache still holding no usable
\* credential, issues its own POST /auth.
C4_AuthFailureIsFatal ==
  /\ [](\A i \in Ops : ExchangeFailed(i) =>
          /\ pc[i] = "done"
          /\ authCalls[i] = 1
          /\ resCalls[i] = 0
          /\ Len(client[i]) = 1 /\ client[i][1].returned = <<>>
          /\ client[i][1].thrown[1].message \in AuthFailureMessages
          /\ result[i] = << ErrorBlock(tool[i], client[i][1].thrown[1].message) >>)
  /\ [][\A j \in Ops :
          (Starts(j) /\ ~UsableCredential /\ \E i \in Ops : ExchangeFailed(i)) =>
             (authCalls'[j] = 1 /\ \E q \in inflight' : q.op = j /\ q.kind = "auth")]_vars

C4_Witness ==
  /\ ~raced
  /\ ExchangeFailed(1)
  /\ authCalls[2] = 1 /\ pc[2] = "done"

\* C5: an exchange whose 2xx body lacks the token or the lifetime is a
\* failed exchange: no resource call is issued for the operation.
C5_MalformedIsFailure ==
  \A i \in Ops : (ExchangeOk(i) /\ ~ExchangeComplete(i)) => resCalls[i] = 0

\* C6: two operations that race on an empty cache both exchange and both
\* go on to their resource call and its result; the cache holds the token
\* and the expiry of one exchange response, the latest.
C6_BenignRace ==
  /\ \A i \in Ops : ExchangeOk(i) =>
       /\ resCalls[i] = 1
       /\ (pc[i] = "done" => (resReply[i] # <<>> /\ Len(result[i]) = 1))
  /\ (\E i \in Ops : ExchangeOk(i)) =>
       (token = lastExchange.token /\ tokenExpiry = lastExchange.expiry)

C6_Witness ==
  /\ raced
  /\ ExchangeComplete(1) /\ ExchangeComplete(2)
  /\ pc[1] = "done" /\ pc[2] = "done"
  /\ tokenExpiry = 2 * MsPerSecond

\* an upstream rejection that carries a body
HasBody(e) == e.response # <<>> /\ e.response[1].data # <<>>

\* C7: a non-2xx response with a structured error body is what the
\* request helper returns, unchanged; nothing is thrown.
C7_ErrorBodyReturned ==
  \A i \in Ops :
    (resReply[i] # <<>> /\ resReply[i][1].error # <<>> /\ HasBody(resReply[i][1].error[1]))
      => client[i] = << [ returned |-> << resReply[i][1].error[1].response[1].data[1] >>,
                          thrown |-> <<>> ] >>

C7_Witness ==
  \E i \in Ops :
    /\ resReply[i] # <<>> /\ resReply[i][1].error # <<>>
    /\ HasBody(resReply[i][1].error[1])
    /\ client[i][1].returned[1].Errors[1].Code = "parameter_required"

\* C8: a resource call that fails without a response body makes the
\* operation throw 'API request failed: ' and the underlying message.
C8_TransportFailureThrown ==
  \A i \in Ops :
    (resReply[i] # <<>> /\ resReply[i][1].error # <<>> /\ ~HasBody(resReply[i][1].error[1]))
      => /\ Len(client[i]) = 1 /\ client[i][1].returned = <<>>
         /\ client[i][1].thrown =
              << [ name |-> "Error",
                   message |-> "API request failed: " \o resReply[i][1].error[1].message ] >>

C8_Witness ==
  \E i \in Ops :
    /\ resReply[i] = << [data |-> <<>>, error |-> <<TimeoutError>>] >>
    /\ client[i][1].thrown[1].message = "API request failed: timeout of 120000ms exceeded"

\* C9: when the handler of a tool throws, the invocation returns one text
\* block 'Error executing <registered name>: <message>' with the error
\* flag, the process stays up and the next invocation can be made.
C9_ErrorResult ==
  /\ alive
  /\ \A i \in Ops : (client[i] # <<>> /\ client[i][1].thrown # <<>>) =>
       result[i] = << ErrorBlock(tool[i], client[i][1].thrown[1].message) >>
  /\ \A j \in Ops :
       (pc[j] = "idle" /\ \A k \in Ops : k < j => pc[k] = "done")
         => ENABLED (\E t \in Tools : InvokeAlone(j, t))

C9_Witness ==
  /\ client[1] # <<>> /\ client[1][1].thrown # <<>>
  /\ tool[1] = "siigo_create_product"
  /\ pc[2] = "done" /\ ~result[2][1].isError

\* C10: when every HTTP call eventually returns, fails or times out, every
\* invocation ends with exactly one result; a completion, a time-out
\* included, changes no other invocation, and the process stays up.
C10_EveryInvocationAnswered ==
  /\ \A i \in Ops : (pc[i] # "idle") ~> (pc[i] = "done" /\ Len(result[i]) = 1)
  /\ [](alive /\ \A i \in Ops : Len(result[i]) = (IF pc[i] = "done" THEN 1 ELSE 0))
  /\ [][\A i \in Ops : (pc[i] # "done" /\ pc'[i] = "done") =>
          \A j \in Ops \ {i} : pc'[j] = pc[j] /\ result'[j] = result[j]]_vars

\* one invocation timed out while another was pending, and the other got
\* its own answer
C10_Witness ==
  \E i, j \in Ops :
    /\ i # j
    /\ resReply[i] = << [data |-> <<>>, error |-> <<TimeoutError>>] >>
    /\ raced
    /\ pc[j] = "done" /\ ~result[j][1].isError

\* the resource calls issued in this step
IssuedNow == {q \in inflight' : q.kind = "resource" /\ q \notin inflight}

\* C11: every resource call leaves with the Authorization header 'Bearer '
\* followed by the token the cache holds at that instant, and with the
\* Partner-Id header equal to the configured partner identifier.
C11_ResourceHeaders ==
  /\ [][\A q \in IssuedNow :
          /\ q.Authorization = "Bearer " \o TemplateStr(token')
          /\ q.PartnerId = config.partnerId]_vars
  /\ [](\A q \in inflight : q.PartnerId = "acmeMcp")

\* after a race, the second exchange replaced the token and the resource
\* call of its operation carries the new one
C11_Witness ==
  /\ raced
  /\ ExchangeComplete(1)
  /\ token = TokenOf(2)
  /\ \E q \in inflight : q.kind = "resource" /\ q.op = 2
                           /\ q.Authorization = "Bearer tok2"

\* the exchange of invocation i completes in this step with a body that
\* carries a token and a lifetime
CompletesExchange(i) == pc[i] = "auth" /\ authReply'[i] # <<>> /\ authReply'[i][1].complete

\* the cache holds a token and an expiry written by such an exchange
CachedCredential ==
  token \notin {NullToken, UndefinedToken} /\ tokenExpiry \notin {NullDate, InvalidDate}

\* C12: an exchange completed at time t with a lifetime of L seconds
\* records the expiry t + L seconds; an operation started strictly before
\* the recorded expiry reuses the cached token and does not exchange, one
\* started at or after it issues a new exchange.
C12_ExpiryArithmetic ==
  /\ [][\A i \in Ops : CompletesExchange(i) =>
          tokenExpiry' = now + authReply'[i][1].lifetime * 1000]_vars
  /\ [][\A j \in Ops : (Starts(j) /\ CachedCredential) =>
          IF now < tokenExpiry
            THEN /\ authCalls'[j] = 0
                 /\ \E q \in IssuedNow : q.op = j /\ q.Authorization = "Bearer " \o token
            ELSE /\ authCalls'[j] = 1 /\ resCalls'[j] = 0
                 /\ \E q \in inflight' : q.op = j /\ q.kind = "auth"]_vars

\* a token issued at 0 for one second was reused by no later operation:
\* the second operation, started at 1000 ms, exchanged again
C12_Witness ==
  /\ ~raced
  /\ ExchangeComplete(1) /\ authReply[1][1].lifetime = 1
  /\ pc[1] = "done"
  /\ authCalls[2] = 1
  /\ \E q \in inflight : q.op = 2 /\ q.kind = "auth" /\ q.at = 1000 /\ q.bearerExpiry = 1000

\* the calls of invocation i still awaiting their response
Pending(i) == {q \in inflight : q.op = i}

\* C13: an invocation issues at most one POST /auth and at most one
\* resource call; once a call of either kind has failed the invocation is
\* over, with nothing of its own in flight and nothing issued afterwards.
C13_NoRetry ==
  /\ [](\A i \in Ops :
          /\ authCalls[i] <= 1 /\ resCalls[i] <= 1
          /\ Cardinality(Pending(i)) <= 1
          /\ (ExchangeFailed(i) \/ (resReply[i] # <<>> /\ resReply[i][1].error # <<>>))
               => (pc[i] = "done" /\ Pending(i) = {}))
  /\ [][\A i \in Ops : pc[i] = "done" =>
          /\ authCalls'[i] = authCalls[i] /\ resCalls'[i] = resCalls[i]
          /\ Pending(i)' = {}]_vars

\* one invocation lost its exchange, another its resource call to a
\* time-out; each had issued that one call only
C13_Witness ==
  \E i, j \in Ops :
    /\ ExchangeFailed(i) /\ authCalls[i] = 1 /\ resCalls[i] = 0
    /\ resReply[j] = << [data |-> <<>>, error |-> <<TimeoutError>>] >>
    /\ resCalls[j] = 1 /\ pc[j] = "done"

\* ---- the client methods
\* the method of tool t was called and has returned a value
Answered(t) == CalledTool = t /\ output # << >> /\ output[1].returned # << >>
TheArgs == call[1].args
Fetched == response[1]
Given == output[1].returned[1]

\* a page of results was fetched
FetchedList == Fetched.results # undefined

\* the filter on field is active in the call followed
Active(field) == TheArgs[field] # undefined /\ TheArgs[field][1] # << >>

\* the lower-cased text s contains the lower-cased filter on field
Contains(s, field) == includes(toLowerCase(s), toLowerCase(TheArgs[field][1]))

\* customer c matches the name filter by its name list / its commercial name
NameListContains(c) ==
  c.name # undefined /\ \E k \in 1..Len(c.name[1]) : Contains(c.name[1][k], "name")
CommercialNameContains(c) ==
  c.commercial_name # undefined /\ Contains(c.commercial_name[1], "name")

\* C14: a customer search with a name filter keeps exactly the customers
\* whose name list has an element containing the filter, or whose
\* commercial name contains it, case-insensitively.
C14_NameOrCommercialName ==
  ( /\ Answered("siigo_search_customers")
    /\ Active("name") /\ ~Active("identification")
    /\ FetchedList )
  => Given.results =
       Some(SelectSeq(Fetched.results[1],
                      LAMBDA c : NameListContains(c) \/ CommercialNameContains(c)))

\* product p has a code and it contains the code filter
CodeContains(p) == p.code # undefined /\ Contains(p.code[1], "code")

\* C15: a product search with a code filter returns elements of the
\* fetched list whose lower-cased code contains the lower-cased filter,
\* all of them in the server's order when code is the only filter, and
\* the total_results it returns is the number of elements returned.
C15_CodeFilter ==
  ( /\ Answered("siigo_search_products")
    /\ Active("code")
    /\ FetchedList )
  => /\ \A k \in 1..Len(Given.results[1]) : CodeContains(Given.results[1][k])
     /\ (~Active("name") /\ ~Active("reference")) =>
           Given.results[1] = SelectSeq(Fetched.results[1], CodeContains)
     /\ Fetched.pagination # undefined =>
           Given.pagination[1].total_results = Len(Given.results[1])

\* an upper-case filter found a lower-case-insensitive match and dropped
\* the product that has no code
C15_Witness ==
  /\ Answered("siigo_search_products")
  /\ TheArgs.code = Str(<<"B">>) /\ ~Active("name") /\ ~Active("reference")
  /\ FetchedList /\ Len(Fetched.results[1]) = 2
  /\ Fetched.pagination # undefined
  /\ Fetched.results[1][1].code = undefined
  /\ Fetched.results[1][2].code = Str(<<"A", "B">>)
  /\ Given.results[1] = << Fetched.results[1][2] >>
  /\ Given.pagination[1].total_results = 1

\* the text filters of the search followed
TextFilters == IF CalledTool = "siigo_search_products" THEN productFilters ELSE customerFilters
SearchFn == IF CalledTool = "siigo_search_products" THEN "searchProducts" ELSE "searchCustomers"

\* element x passes the filter on field, as the search evaluates it
Passes(x, field) == matches(SearchFn, field, x, toLowerCase(TheArgs[field][1]))

\* element x passes every active filter
PassesAll(x) == \A k \in 1..Len(TextFilters) : Active(TextFilters[k]) => Passes(x, TextFilters[k])

\* the orders in which the filters of s can be applied
Orders(s) ==
  { p \in [1..Len(s) -> {s[k] : k \in 1..Len(s)}] :
      \A i, j \in 1..Len(s) : p[i] = p[j] => i = j }

\* C16: with text filters active, a search returns the fetched elements
\* that pass every active filter, in the server's order; applying the
\* filters in any other order gives the same list.
C16_Intersection ==
  ( /\ CalledTool \in SearchTools /\ output # << >> /\ output[1].returned # << >>
    /\ \E k \in 1..Len(TextFilters) : Active(TextFilters[k])
    /\ FetchedList )
  => /\ Given.results = Some(SelectSeq(Fetched.results[1], PassesAll))
     /\ \A order \in Orders(TextFilters) :
           filterIn(SearchFn, TheArgs, Fetched.results[1], order) = Given.results[1]

\* two filters active on a page of two customers: the first passes the
\* name filter only and is dropped, the second passes both and is kept
C16_Witness ==
  /\ Answered("siigo_search_customers")
  /\ Active("identification") /\ Active("name")
  /\ FetchedList /\ Len(Fetched.results[1]) = 2
  /\ Passes(Fetched.results[1][1], "name")
  /\ ~Passes(Fetched.results[1][1], "identification")
  /\ PassesAll(Fetched.results[1][2])
  /\ Given.results[1] = << Fetched.results[1][2] >>

\* C17: a product or customer search called with no text filter returns
\* the envelope makeRequest returned, results and pagination included.
C17_NoFilterUnchanged ==
  ( /\ CalledTool \in SearchTools /\ output # << >> /\ output[1].returned # << >>
    /\ \A k \in 1..Len(TextFilters) : ~Active(TextFilters[k]) )
  => Given = Fetched

\* a page of two products whose server total is larger came back as sent
C17_Witness ==
  /\ Answered("siigo_search_products")
  /\ TheArgs.code = undefined /\ TheArgs.name = undefined /\ TheArgs.reference = undefined
  /\ TheArgs.page = Some(2)
  /\ FetchedList /\ Len(Fetched.results[1]) = 2
  /\ Fetched.pagination # undefined
  /\ Given.pagination[1].total_results = 57
  /\ Len(Given.results[1]) = 2

\* C18: with a text filter active and an envelope that has results and
\* pagination, the returned total_results is the number of returned
\* results, page and page_size are the server's, and every other field of
\* the envelope is returned as received.
C18_PaginationRecomputed ==
  ( /\ CalledTool \in SearchTools /\ output # << >> /\ output[1].returned # << >>
    /\ \E k \in 1..Len(TextFilters) : Active(TextFilters[k])
    /\ FetchedList /\ Fetched.pagination # undefined )
  => /\ Given.pagination[1].total_results = Len(Given.results[1])
     /\ Given.pagination[1].page = Fetched.pagination[1].page
     /\ Given.pagination[1].page_size = Fetched.pagination[1].page_size
     /\ DOMAIN Given.pagination[1] = DOMAIN Fetched.pagination[1]
     /\ DOMAIN Given = DOMAIN Fetched
     /\ \A f \in DOMAIN Fetched \ {"results", "pagination"} : Given[f] = Fetched[f]

\* a customer search kept one of two customers: the total went from the
\* server's 57 to 1, the page and the links stayed
C18_Witness ==
  /\ Answered("siigo_search_customers")
  /\ Active("name")
  /\ FetchedList /\ Len(Fetched.results[1]) = 2
  /\ Fetched.pagination # undefined /\ Fetched.pagination[1].total_results = 57
  /\ Given.pagination[1] = [page |-> 2, page_size |-> 25, total_results |-> 1]
  /\ Given.links = Some(Links)

\* the single request of the call followed
TheRequest == requests[1]

\* C19: the list request of a search carries exactly the page and
\* page_size the caller supplied (and type, for customers), and none of
\* code, name, reference, identification.
C19_QueryParameters ==
  (CalledTool \in SearchTools) =>
    /\ Len(requests) = 1
    /\ TheRequest.method = "GET"
    /\ LET params == TheRequest.params[1]
           forwarded == IF CalledTool = "siigo_search_customers"
                          THEN {"page", "page_size", "type"} ELSE {"page", "page_size"}
       IN /\ DOMAIN params = {k \in forwarded : TheArgs[k] # undefined}
          /\ \A k \in DOMAIN params : params[k] = TheArgs[k][1]

\* the collection each update tool writes to
Collection ==
  [ siigo_update_product |-> "/v1/products",
    siigo_update_account_group |-> "/v1/account-groups",
    siigo_update_customer |-> "/v1/customers",
    siigo_update_invoice |-> "/v1/invoices",
    siigo_update_quotation |-> "/v1/quotations",
    siigo_update_purchase |-> "/v1/purchases",
    siigo_update_payment_receipt |-> "/v1/payment-receipts",
    siigo_update_webhook |-> "/v1/webhooks" ]

\* the partial payload the caller gave the update tool
PayloadGiven ==
  CASE CalledTool = "siigo_update_product" -> TheArgs.product
    [] CalledTool = "siigo_update_account_group" ->
         [code |-> TheArgs.code, name |-> TheArgs.name]
    [] CalledTool = "siigo_update_customer" -> TheArgs.customer
    [] CalledTool = "siigo_update_invoice" -> TheArgs.invoice
    [] CalledTool = "siigo_update_quotation" -> TheArgs.quotation
    [] CalledTool = "siigo_update_purchase" -> TheArgs.purchase
    [] CalledTool = "siigo_update_payment_receipt" -> TheArgs.paymentReceipt
    [] CalledTool = "siigo_update_webhook" -> TheArgs

\* C20: an update issues one PUT to <collection>/<id> for the identifier
\* it was given, with the payload it was given as the body.
C20_UpdateIsPutToId ==
  (CalledTool \in UpdateTools) =>
    /\ Len(requests) = 1
    /\ TheRequest.method = "PUT"
    /\ TheRequest.url = Collection[CalledTool] \o "/" \o
          (IF CalledTool = "siigo_update_account_group"
             THEN ToString(TheArgs.id) ELSE TheArgs.id)
    /\ TheRequest.data = Some(PayloadGiven)

\* the path each report tool posts to
ReportPath ==
  [ siigo_get_trial_balance |-> "/v1/test-balance-report",
    siigo_get_trial_balance_by_third |-> "/v1/test-balance-report-by-thirdparty" ]

\* C21: the two trial balance reports are each asked for with one POST,
\* never a GET, to their own path, the report parameters being the body.
C21_ReportsArePosts ==
  (CalledTool \in ReportTools) =>
    /\ Len(requests) = 1
    /\ TheRequest.method = "POST"
    /\ TheRequest.url = ReportPath[CalledTool]
    /\ TheRequest.data = Some(TheArgs)
    /\ TheRequest.params = undefined

C21_Witness ==
  /\ Answered("siigo_get_trial_balance")
  /\ TheRequest.method = "POST" /\ TheRequest.url = "/v1/test-balance-report"
  /\ TheRequest.data[1].month_end = 13

\* the collection each create tool posts to
CreateCollection ==
  [ siigo_create_product |-> "/v1/products",
    siigo_create_account_group |-> "/v1/account-groups",
    siigo_create_customer |-> "/v1/customers",
    siigo_create_invoice |-> "/v1/invoices",
    siigo_create_quotation |-> "/v1/quotations",
    siigo_create_credit_note |-> "/v1/credit-notes",
    siigo_create_voucher |-> "/v1/vouchers",
    siigo_create_purchase |-> "/v1/purchases",
    siigo_create_payment_receipt |-> "/v1/payment-receipts",
    siigo_create_journal |-> "/v1/journals",
    siigo_create_webhook |-> "/v1/webhooks" ]

\* the payload the caller gave the create tool
CreatePayloadGiven ==
  CASE CalledTool = "siigo_create_product" -> TheArgs.product
    [] CalledTool = "siigo_create_customer" -> TheArgs.customer
    [] CalledTool = "siigo_create_invoice" -> TheArgs.invoice
    [] CalledTool = "siigo_create_quotation" -> TheArgs.quotation
    [] CalledTool = "siigo_create_credit_note" -> TheArgs.creditNote
    [] CalledTool = "siigo_create_voucher" -> TheArgs.voucher
    [] CalledTool = "siigo_create_purchase" -> TheArgs.purchase
    [] CalledTool = "siigo_create_payment_receipt" -> TheArgs.paymentReceipt
    [] CalledTool = "siigo_create_journal" -> TheArgs.journal
    [] OTHER -> TheArgs

\* C22: a create issues one POST to its collection with the caller's
\* payload as the body, and returns what makeRequest returned.
C22_CreateIsPost ==
  (CalledTool \in CreateTools) =>
    /\ Len(requests) = 1
    /\ TheRequest.method = "POST"
    /\ TheRequest.url = CreateCollection[CalledTool]
    /\ TheRequest.data = Some(CreatePayloadGiven)
    /\ TheRequest.params = undefined
    /\ (output # << >> /\ output[1].returned # << >>) => Given = Fetched

\* create product with {code: 'P1', name: 'Widget', account_group: 10}
C22_Witness ==
  /\ Answered("siigo_create_product")
  /\ TheArgs.product = [code |-> "P1", name |-> "Widget", account_group |-> 10]
  /\ requests = << [ method |-> "POST", url |-> "/v1/products",
                     data |-> << [code |-> "P1", name |-> "Widget", account_group |-> 10] >>,
                     params |-> << >> ] >>
  /\ Given = Fetched

\* C29: with a text filter active, a response without a results list
\* (an upstream error body returned as data) is returned unchanged.
C29_NoResultsUnchanged ==
  ( /\ CalledTool \in SearchTools /\ output # << >> /\ output[1].returned # << >>
    /\ \E k \in 1..Len(TextFilters) : Active(TextFilters[k])
    /\ ~FetchedList )
  => Given = Fetched

C29_Witness ==
  /\ Answered("siigo_search_customers")
  /\ Active("name") /\ Active("identification")
  /\ Fetched.results = undefined /\ Fetched.Status = Some(400)
  /\ Given.Status = Some(400) /\ Given.results = undefined

\* the arguments with every empty-string text filter left out
WithoutEmpty(args) ==
  [k \in DOMAIN args |->
     IF k \in {"code", "name", "reference", "identification"} /\ args[k] = Some(<< >>)
       THEN undefined ELSE args[k]]

\* an empty-string text filter is among the arguments
EmptySupplied == \E k \in 1..Len(TextFilters) : TheArgs[TextFilters[k]] = Some(<< >>)

\* C30: an empty-string text filter counts as not supplied: the search
\* returns what it returns without it, and when every text filter is
\* absent or empty the envelope comes back unchanged, total_results
\* included.
C30_EmptyFilterIgnored ==
  ( /\ CalledTool \in SearchTools /\ output # << >> /\ output[1].returned # << >>
    /\ EmptySupplied )
  => /\ Given = MethodReturn(CalledTool, WithoutEmpty(TheArgs), Fetched)
     /\ (\A k \in 1..Len(TextFilters) :
            TheArgs[TextFilters[k]] \in {undefined, Some(<< >>)}) => Given = Fetched
     /\ (FetchedList /\ \A k \in 1..Len(TextFilters) :
                          TheArgs[TextFilters[k]] \in {undefined, Some(<< >>)})
          => Len(Given.results[1]) = Len(Fetched.results[1])

\* the empty code filter dropped nothing, not even the product without a
\* code, and the server's total came back
C30_Witness ==
  /\ Answered("siigo_search_products")
  /\ TheArgs.code = Some(<< >>) /\ TheArgs.name = Some(<< >>)
  /\ FetchedList /\ Len(Fetched.results[1]) = 2
  /\ \E k \in 1..2 : Fetched.results[1][k].code = undefined
  /\ Fetched.pagination # undefined
  /\ Given.results = Fetched.results
  /\ Given.pagination[1].total_results = 57

\* ---- the tool layer and the cache
\* the client call of invocation i returned / threw
ClientReturned(i) == client[i] # <<>> /\ client[i][1].returned # <<>>
ClientThrew(i) == client[i] # <<>> /\ client[i][1].thrown # <<>>

\* the pretty-printed JSON texts of the envelopes the upstream sends
PrettyJSON ==
  { "{\n  \"results\": [\n    {\n      \"code\": \"P1\",\n      \"name\": \"Widget\"\n    }\n  ],\n  \"pagination\": {\n    \"page\": 1,\n    \"page_size\": 25,\n    \"total_results\": 1\n  }\n}",
    "{\n  \"Status\": 400,\n  \"Errors\": [\n    {\n      \"Code\": \"parameter_required\",\n      \"Message\": \"The code is required\"\n    }\n  ]\n}",
    "{\n  \"Status\": 401,\n  \"Errors\": [\n    {\n      \"Code\": \"unauthorized\",\n      \"Message\": \"Invalid token\"\n    }\n  ]\n}" }

\* C23: an invocation whose client call returns yields exactly one text
\* block, the pretty-printed JSON of the returned envelope, with no error
\* flag.
C23_JsonResult ==
  \A i \in Ops : ClientReturned(i) =>
    /\ Len(result[i]) = 1
    /\ Len(result[i][1].content) = 1
    /\ result[i][1].content[1].type = "text"
    /\ result[i][1].content[1].text = JSONStringify(client[i][1].returned[1])
    /\ result[i][1].content[1].text \in PrettyJSON
    /\ ~result[i][1].isError

\* a page of products came back from siigo_create_product's POST
C23_Witness ==
  \E i \in Ops :
    /\ tool[i] = "siigo_create_product"
    /\ ClientReturned(i) /\ client[i][1].returned[1] = ProductsPage
    /\ result[i][1].content[1].text = JSONStringify(ProductsPage)

\* the resource call of invocation i completes in this step
CompletesResource(i) == pc[i] = "request" /\ pc'[i] = "done"

\* invocation i was answered an authorization rejection
WasRejected(i) == resReply[i] = << Rejected401 >>

\* C25: no outcome of a resource call changes the cached token, its
\* expiry or the default header: the cache changes only when an exchange
\* is answered 2xx, and an operation started within the expiry after an
\* upstream rejection reuses the token without exchanging.
C25_ResponseKeepsCache ==
  /\ [][\A i \in Ops : CompletesResource(i) =>
          (token' = token /\ tokenExpiry' = tokenExpiry /\ authHeader' = authHeader)]_vars
  /\ [][(token' # token \/ tokenExpiry' # tokenExpiry) =>
          \E i \in Ops : pc[i] = "auth" /\ ExchangeOk(i)']_vars
  /\ [][\A j \in Ops :
          (Starts(j) /\ UsableCredential /\ \E i \in Ops : WasRejected(i)) =>
             /\ authCalls'[j] = 0
             /\ \E q \in IssuedNow : q.op = j /\ q.Authorization = "Bearer " \o token]_vars

\* the first invocation was rejected with 401; the second, started within
\* the expiry, went out with the same token and no exchange
C25_Witness ==
  /\ WasRejected(1)
  /\ ExchangeComplete(1)
  /\ authCalls[2] = 0 /\ resCalls[2] = 1
  /\ token = TokenOf(1)
  /\ \E q \in inflight : q.op = 2 /\ q.Authorization = "Bearer tok1"

\* the exchange of invocation i fails in this step
FailsExchange(i) ==
  pc[i] = "auth" /\ authReply'[i] # <<>> /\ authReply'[i][1].kind \in {"null", "error"}

\* C26: a failed exchange leaves the cached token, the cached expiry and
\* the default Authorization header as they were before the attempt.
C26_FailureKeepsCache ==
  [][\A i \in Ops : FailsExchange(i) =>
       (token' = token /\ tokenExpiry' = tokenExpiry /\ authHeader' = authHeader)]_vars

\* the refresh of an expired credential failed: the expired token, its
\* expiry and the header are still there
C26_Witness ==
  /\ ~raced
  /\ ExchangeComplete(1) /\ ExchangeFailed(2)
  /\ token = TokenOf(1) /\ tokenExpiry = 1000 /\ now >= 1000
  /\ authHeader = "Bearer tok1"

\* C27: the cached token and expiry are both unset, or both set, by the
\* same exchange response; when set, the default header is 'Bearer '
\* followed by the cached token.
C27_CachePaired ==
  \/ token = NullToken /\ tokenExpiry = NullDate /\ authHeader = NoHeader
  \/ /\ token \notin {NullToken, UndefinedToken}
     /\ tokenExpiry \notin {NullDate, InvalidDate}
     /\ token = lastExchange.token /\ tokenExpiry = lastExchange.expiry
     /\ authHeader = "Bearer " \o token

\* C28: an upstream error body returned as data reaches the caller as one
\* JSON text block without the error flag; the flag is set exactly when
\* the client call threw.
C28_ErrorBodyIsNormalResult ==
  /\ \A i \in Ops :
       (resReply[i] # <<>> /\ resReply[i][1].error # <<>> /\ HasBody(resReply[i][1].error[1]))
         => /\ Len(result[i]) = 1
            /\ Len(result[i][1].content) = 1
            /\ result[i][1].content[1] =
                  [type |-> "text",
                   text |-> JSONStringify(resReply[i][1].error[1].response[1].data[1])]
            /\ ~result[i][1].isError
  /\ \A i \in Ops : result[i] # <<>> => (result[i][1].isError <=> ClientThrew(i))

\* one invocation was answered 401 with a body and got a normal result,
\* the other timed out and got a flagged one
C28_Witness ==
  \E i, j \in Ops :
    /\ WasRejected(i) /\ ~result[i][1].isError
    /\ result[i][1].content[1].text = JSONStringify(ErrBody401)
    /\ ClientThrew(j) /\ result[j][1].isError

\* ---- the start of the process
\* a required variable is missing from the environment, or empty
LacksRequired(env) ==
  \E k \in {"SIIGO_USERNAME", "SIIGO_ACCESS_KEY", "SIIGO_PARTNER_ID"} : env[k] \in {Unset, ""}

\* the top-level code runs in this step
Boots == boot.phase = "starting" /\ boot'.phase # "starting"

\* C24: started without the username, the access key or the partner
\* identifier (missing or empty), the process prints a diagnostic and
\* exits with a failure code, no client created and no tool call served;
\* otherwise it starts, the base URL defaulting to the production
\* endpoint when it is missing.
C24_StartupCheck ==
  /\ [][Boots =>
          IF LacksRequired(boot.env)
            THEN /\ boot'.phase = "exited"
                 /\ boot'.exitCode = << 1 >>
                 /\ Len(boot'.stderr) = 1
                 /\ boot'.config = << >>
                 /\ ~alive'
            ELSE /\ boot'.phase = "serving"
                 /\ alive'
                 /\ boot'.exitCode = << >>
                 /\ boot'.config[1].username = boot.env.SIIGO_USERNAME
                 /\ boot'.config[1].accessKey = boot.env.SIIGO_ACCESS_KEY
                 /\ boot'.config[1].partnerId = boot.env.SIIGO_PARTNER_ID
                 /\ boot'.config[1].baseUrl =
                      (IF boot.env.SIIGO_BASE_URL \in {Unset, ""}
                         THEN "https://api.siigo.com" ELSE boot.env.SIIGO_BASE_URL)]_vars
  /\ [](boot.phase # "serving" =>
          /\ boot.config = << >>
          /\ inflight = {}
          /\ \A i \in Ops : pc[i] = "idle" /\ result[i] = << >>)
  /\ [][boot.phase = "exited" => (boot' = boot /\ pc' = pc /\ inflight' = inflight)]_vars

\* the partner identifier alone was empty: the process has exited with
\* code 1 and its diagnostic, and time has passed without any tool call
C24_Witness ==
  /\ boot.phase = "exited"
  /\ boot.env.SIIGO_USERNAME = "user@example.com" /\ boot.env.SIIGO_ACCESS_KEY = "key"
  /\ boot.env.SIIGO_PARTNER_ID = ""
  /\ boot.exitCode = << 1 >> /\ boot.stderr = << Diagnostic >>
  /\ now > 0

====
